---- MODULE Spec2Model ----
(***************************************************************************)
(* Model of the NYTimes client (src/code/nytimes/client_nytimes.py):       *)
(* the single-month archive fetch, the paginated search aggregation        *)
(* (page 0, then pages 1..total_pages-1 through asyncio.gather), and the   *)
(* two materializers (polars dataframe, asyncpg database).                 *)
(*                                                                         *)
(* One client object performs one method call per behaviour; the event     *)
(* loop interleaves the responses of the page fetches it has in flight.    *)
(***************************************************************************)
EXTENDS Integers, Sequences, FiniteSets, TLC

VARIABLES
    call,         \* the method invoked on the client: "none" before any call
    pc,           \* the await the invoked method is suspended at
    ret,          \* how the call ended: pending, a returned value, an exception
    requested,    \* the page indices the fetcher was invoked with, in order
    task,         \* page index -> state of the fetch coroutine of that page
    status,       \* page index -> outcome of its GET, once it has one
    body,         \* page index -> "docs" of the response body, once parsed
    arrival,      \* page indices >= 1 in the order their responses arrived
    total_hits,   \* local total_hits of gather_all_machine_learning_articles
    total_pages,  \* local total_pages of gather_all_machine_learning_articles
    url,          \* <<year, month>> of the archive URL requested
    articles,     \* argument `articles` of the materializer invoked
    existing_df,  \* argument `existing_df` of impute_article_info_into_dataframe
    idx,          \* 1-based position of the database insert loop
    conn,         \* asyncpg connection: "none", "open", "closed"
    opened,       \* number of connections opened
    issued,       \* record positions for which conn.execute was issued
    store         \* rows of table nytimes_articles, in insertion order

vars == <<call, pc, ret, task, status, requested, body, arrival, total_hits,
          total_pages, url, articles, existing_df, idx, conn, opened, issued,
          store>>

gatherVars == <<arrival, total_hits, total_pages>>
dbVars == <<existing_df, idx, conn, opened, issued, store>>

----------------------------------------------------------------------------
(* Bounds of the model *)

\* largest total hit count the upstream reports when every interleaving is explored
MaxHits == 31
\* largest total hit count for which the page count is computed
MaxTotalHits == 1100
\* hit counts 0..LowHits, and those around the page cap, are fanned out in full
LowHits == 110
\* longest article sequence handed to a materializer
MaxArticles == 2

(* Constants of the program *)

\* items per page: the divisor of the page computation
PageSize == 10
\* page cap: second argument of min()
MaxPages == 100
\* the only status the fetchers accept
StatusOK == 200

----------------------------------------------------------------------------
(* Values *)

Min(a, b) == IF a < b THEN a ELSE b
Max(a, b) == IF a > b THEN a ELSE b

\* session.get raised: no HTTP response at all
TransportError == 0
\* what one GET can end with: a transport failure or an HTTP status
Outcomes == {TransportError, StatusOK, 500}

\* unset local
Unset == -1

Pending == [kind |-> "pending", json |-> "none", items |-> <<>>]
Raised == [kind |-> "exception", json |-> "none", items |-> <<>>]
Returned(json, items) == [kind |-> "value", json |-> json, items |-> items]

Range(seq) == {seq[i] : i \in DOMAIN seq}

\* no coroutine, no response yet
NoPages == [p \in {} |-> 0]

\* f with the pages of `pages` set to v
Extend(f, pages, v) ==
    [p \in DOMAIN f \cup pages |-> IF p \in pages THEN v ELSE f[p]]

\* the upstream result set is the articles 1..h; page p holds its p-th slice
UpstreamDocs(h, p) ==
    LET n == Max(0, Min(PageSize, h - PageSize * p))
    IN  [i \in 1..n |-> PageSize * p + i]

----------------------------------------------------------------------------
(* Article records.  A str is a sequence of characters; None is not a str. *)

None == [none |-> TRUE, s |-> <<>>]
Str(s) == [none |-> FALSE, s |-> s]

Person(first, last) == [firstname |-> first, lastname |-> last]

PersonLists ==
    { <<>>,
      << Person(<<>>, <<>>) >>,
      << Person(<<"A">>, <<"B">>), Person(<<"C">>, <<>>) >> }

OrganizationLists == { <<>>, << <<>> >>, << <<"N">>, <<"Y">> >> }

\* "full": every key present; "no_subsection": the optional subsection_name
\* is missing; "no_abstract": the required key "abstract" is missing
ArticleKinds == {"full", "no_subsection", "no_abstract"}

ArticlePool ==
    [kind : ArticleKinds,
     byline : [person : PersonLists, organization : OrganizationLists]]

ArticleLists == UNION {[1..n -> ArticlePool] : n \in 0..MaxArticles}

\* art["abstract"] and the other required keys: KeyError when one is missing
HasRequiredKeys(art) == art.kind # "no_abstract"

\* art.get("subsection_name", None)
SubsectionName(art) ==
    IF art.kind = "no_subsection" THEN None ELSE Str(<<"s">>)

RECURSIVE Join(_, _)
\* sep.join(strs)
Join(sep, strs) ==
    IF strs = <<>> THEN <<>>
    ELSE IF Len(strs) = 1 THEN Head(strs)
    ELSE Head(strs) \o sep \o Join(sep, Tail(strs))

KeepEmpty(s) == Str(s)

\* `<str> or None`: the empty str is falsy
OrNone(s) == IF s = <<>> THEN None ELSE Str(s)

\* [person["firstname"] + ' ' + person["lastname"] for person in ...]
FullNames(persons) ==
    [i \in 1..Len(persons) |->
        persons[i].firstname \o <<" ">> \o persons[i].lastname]

\* lines 180-185
DfAuthorList(art) == OrNone(Join(<<" ">>, FullNames(art.byline.person)))

\* lines 186-189: (" ".join(orgs) or None) if orgs else None
DfOrganizationList(art) ==
    IF art.byline.organization # <<>>
    THEN OrNone(Join(<<" ">>, art.byline.organization))
    ELSE None

\* lines 249-252
DbAuthorList(art) == OrNone(Join(<<" ">>, FullNames(art.byline.person)))

\* lines 253-254
DbOrganizationList(art) ==
    IF art.byline.organization # <<>>
    THEN OrNone(Join(<<" ">>, art.byline.organization))
    ELSE None

\* one row of the dataframe: the columns that differ between the records
DfRow(art) ==
    [subsection_name |-> SubsectionName(art),
     author_list |-> DfAuthorList(art),
     organization_list |-> DfOrganizationList(art)]

\* the arguments $10..$12 of one INSERT
DbRow(art) ==
    [subsection_name |-> SubsectionName(art),
     author_list |-> DbAuthorList(art),
     organization_list |-> DbOrganizationList(art)]

\* existing_df: None, or a table built by an earlier call
NoTable == [given |-> FALSE, rows |-> <<>>]
ExistingTables ==
    { NoTable,
      [given |-> TRUE,
       rows |-> << DfRow([kind |-> "full",
                          byline |-> [person |-> << Person(<<"A">>, <<"B">>) >>,
                                      organization |-> << <<"N">> >>]]) >>] }

----------------------------------------------------------------------------
(* _fetch_machine_learning_articles / get_articles_from_specified_month:   *)
(* `if response.status != 200: raise Exception(...)`                       *)

RaiseForStatus(st) == st # StatusOK

----------------------------------------------------------------------------
(* gather_all_machine_learning_articles *)

TotalPagesFloor(hits) == Min(hits \div PageSize, MaxPages)

TotalPagesNoCap(hits) ==
    (hits \div PageSize) + (IF hits % PageSize # 0 THEN 1 ELSE 0)

\* total_pages = min((total_hits // 10) + (1 if total_hits % 10 else 0), 100)
TotalPages(hits) ==
    Min((hits \div PageSize) + (IF hits % PageSize # 0 THEN 1 ELSE 0), MaxPages)

\* list(range(1, total_pages))
TaskPages(tp) == [i \in 1..Max(0, tp - 1) |-> i]

\* pages requested before the first response is awaited
EagerFirstRequests == <<0, 1>>

\* the first await: self._fetch_machine_learning_articles() with page = 0
FirstRequests == <<0>>

RECURSIVE Concat(_, _)
\* the docs of the pages named by `order`, extended one page after the other
Concat(docs, order) ==
    IF order = <<>> THEN <<>>
    ELSE docs[Head(order)] \o Concat(docs, Tail(order))

GatherResultsAsCompleted(tasks, arr) == arr

\* asyncio.gather returns the results in the order of the awaitables passed
GatherResults(tasks, arr) == tasks

\* all_articles = first_page docs, extended by each page of `pages` in turn
AllArticles(docs, tasks, arr) ==
    docs[0] \o Concat(docs, GatherResults(tasks, arr))

SiblingsCancelled(t, p) ==
    [q \in DOMAIN t |-> IF q # p /\ t[q] = "pending" THEN "cancelled" ELSE t[q]]

\* gather(return_exceptions=False): the awaitables still running when one
\* raises are left as they are
SiblingsAfterFailure(t, p) == t

GatherSwallows(t) == FALSE

\* gather raises the first exception raised by any awaitable
GatherRaises(t) == \E q \in DOMAIN t : q >= 1 /\ t[q] = "raised"

\* gather returns once every awaitable has returned
GatherDone(t, tasks) == \A q \in Range(tasks) : t[q] = "done"

CallGather ==
    /\ call = "none"
    /\ call' = "gather"
    /\ pc' = "first_page"
    /\ requested' = requested \o FirstRequests
    /\ task' = Extend(task, Range(FirstRequests), "pending")
    /\ UNCHANGED <<ret, status, body, url, articles, gatherVars, dbVars>>

\* the response of page 0 arrives: status check, then lines 105-109
FirstPageResponse(st, hits) ==
    /\ call = "gather"
    /\ pc = "first_page"
    /\ task[0] = "pending"
    /\ status' = Extend(status, {0}, st)
    /\ IF RaiseForStatus(st)
       THEN /\ task' = [task EXCEPT ![0] = "raised"]
            /\ pc' = "ended"
            /\ ret' = Raised
            /\ UNCHANGED <<body, total_hits, total_pages>>
       ELSE /\ task' = [task EXCEPT ![0] = "done"]
            /\ body' = Extend(body, {0}, UpstreamDocs(hits, 0))
            /\ total_hits' = hits
            /\ total_pages' = TotalPages(hits)
            /\ pc' = "launch"
            /\ UNCHANGED ret
    /\ UNCHANGED <<call, requested, arrival, url, articles, dbVars>>

\* lines 112-116: one coroutine per page of range(1, total_pages), all handed
\* to asyncio.gather; with no awaitable gather is done at once (lines 119-123)
LaunchTasks ==
    /\ call = "gather"
    /\ pc = "launch"
    /\ requested' = requested \o TaskPages(total_pages)
    /\ task' = Extend(task, Range(TaskPages(total_pages)), "pending")
    /\ IF TaskPages(total_pages) = <<>>
       THEN /\ pc' = "ended"
            /\ ret' = Returned("array",
                               AllArticles(body, TaskPages(total_pages), arrival))
       ELSE /\ pc' = "gather"
            /\ UNCHANGED ret
    /\ UNCHANGED <<call, status, body, arrival, total_hits, total_pages, url,
                   articles, dbVars>>

\* the response of a page >= 1 arrives; gather reacts to the task's end
PageResponse(p, st) ==
    /\ call = "gather"
    /\ p >= 1
    /\ p \in DOMAIN task
    /\ task[p] = "pending"
    /\ status' = Extend(status, {p}, st)
    /\ arrival' = Append(arrival, p)
    /\ IF RaiseForStatus(st)
       THEN /\ task' = SiblingsAfterFailure([task EXCEPT ![p] = "raised"], p)
            /\ UNCHANGED body
       ELSE /\ task' = [task EXCEPT ![p] = "done"]
            /\ body' = Extend(body, {p}, UpstreamDocs(total_hits, p))
    /\ IF pc = "gather" /\ GatherRaises(task')
       THEN /\ pc' = "ended"
            /\ ret' = Raised
       ELSE IF pc = "gather" /\ GatherDone(task', TaskPages(total_pages))
       THEN /\ pc' = "ended"
            /\ ret' = Returned("array",
                               AllArticles(body', TaskPages(total_pages), arrival'))
       ELSE UNCHANGED <<pc, ret>>
    /\ UNCHANGED <<call, requested, total_hits, total_pages, url, articles, dbVars>>

----------------------------------------------------------------------------
(* get_articles_from_specified_month *)

Months == {7, 12}
Years == {2023}

ArchiveReturnsDocs(docs) == Returned("array", docs)

\* `return await response.json()`: the parsed body, the object
\* {"response": {"docs": [...]}} itself
ArchiveReturn(docs) == Returned("object", docs)

CallArchive(month, year) ==
    /\ call = "none"
    /\ call' = "archive"
    /\ pc' = "archive"
    /\ url' = <<year, month>>
    /\ requested' = Append(requested, 0)
    /\ task' = Extend(task, {0}, "pending")
    /\ UNCHANGED <<ret, status, body, articles, gatherVars, dbVars>>

\* the upstream answers with status st and body {"response": {"docs": docs}}
ArchiveResponse(st, docs) ==
    /\ call = "archive"
    /\ pc = "archive"
    /\ status' = Extend(status, {0}, st)
    /\ pc' = "ended"
    /\ IF RaiseForStatus(st)
       THEN /\ task' = [task EXCEPT ![0] = "raised"]
            /\ ret' = Raised
            /\ UNCHANGED body
       ELSE /\ task' = [task EXCEPT ![0] = "done"]
            /\ body' = Extend(body, {0}, docs)
            /\ ret' = ArchiveReturn(docs)
    /\ UNCHANGED <<call, requested, url, articles, gatherVars, dbVars>>

----------------------------------------------------------------------------
(* impute_article_info_into_dataframe: no await inside, one step *)

RECURSIVE DfRows(_)
\* the loop of lines 169-191, one row per article in input order
DfRows(arts) ==
    IF arts = <<>> THEN <<>> ELSE <<DfRow(Head(arts))>> \o DfRows(Tail(arts))

CallDataframe(arts, existing) ==
    /\ call = "none"
    /\ call' = "dataframe"
    /\ pc' = "ended"
    /\ articles' = arts
    /\ existing_df' = existing
    /\ IF \E i \in 1..Len(arts) : ~HasRequiredKeys(arts[i])
       THEN ret' = Raised
       ELSE ret' = Returned("table",
                            IF existing.given
                            THEN existing.rows \o DfRows(arts)
                            ELSE DfRows(arts))
    /\ UNCHANGED <<task, status, requested, body, url, gatherVars,
                   idx, conn, opened, issued, store>>

----------------------------------------------------------------------------
(* impute_article_info_into_database *)

ExecuteOutcomes == {"ok", "error"}

ExecuteErrorSwallowed(outcome) == FALSE

\* `await conn.execute(...)` raises when the statement fails
ExecuteRaises(outcome) == outcome # "ok"

CallDatabase(arts) ==
    /\ call = "none"
    /\ call' = "database"
    /\ pc' = "connect"
    /\ articles' = arts
    /\ UNCHANGED <<ret, task, status, requested, body, url, gatherVars, dbVars>>

\* line 223: conn = await asyncpg.connect(**db_config)
Connect(ok) ==
    /\ call = "database"
    /\ pc = "connect"
    /\ IF ok
       THEN /\ conn' = "open"
            /\ opened' = opened + 1
            /\ idx' = 1
            /\ pc' = IF articles = <<>> THEN "close" ELSE "insert"
            /\ UNCHANGED ret
       ELSE /\ pc' = "ended"
            /\ ret' = Raised
            /\ UNCHANGED <<conn, opened, idx>>
    /\ UNCHANGED <<call, task, status, requested, body, url, articles,
                   gatherVars, existing_df, issued, store>>

\* lines 236-257, one iteration: the arguments are extracted, then the
\* INSERT is issued; the store commits each statement that succeeds
Insert(outcome) ==
    /\ call = "database"
    /\ pc = "insert"
    /\ IF ~HasRequiredKeys(articles[idx])
       THEN /\ pc' = "ended"
            /\ ret' = Raised
            /\ UNCHANGED <<idx, issued, store>>
       ELSE /\ issued' = Append(issued, idx)
            /\ store' = IF outcome = "ok"
                        THEN Append(store, DbRow(articles[idx]))
                        ELSE store
            /\ IF ExecuteRaises(outcome)
               THEN /\ pc' = "ended"
                    /\ ret' = Raised
                    /\ UNCHANGED idx
               ELSE /\ idx' = idx + 1
                    /\ pc' = IF idx = Len(articles) THEN "close" ELSE "insert"
                    /\ UNCHANGED ret
    /\ UNCHANGED <<call, task, status, requested, body, url, articles,
                   gatherVars, existing_df, conn, opened>>

\* line 260: await conn.close(), reached only when the loop ran to its end
CloseConnection ==
    /\ call = "database"
    /\ pc = "close"
    /\ conn' = "closed"
    /\ pc' = "ended"
    /\ ret' = Returned("null", <<>>)
    /\ UNCHANGED <<call, task, status, requested, body, url, articles,
                   gatherVars, existing_df, idx, opened, issued, store>>

----------------------------------------------------------------------------

Init ==
    /\ call = "none"
    /\ pc = "idle"
    /\ ret = Pending
    /\ requested = <<>>
    /\ task = NoPages
    /\ status = NoPages
    /\ body = NoPages
    /\ arrival = <<>>
    /\ total_hits = Unset
    /\ total_pages = Unset
    /\ url = <<>>
    /\ articles = <<>>
    /\ existing_df = NoTable
    /\ idx = 0
    /\ conn = "none"
    /\ opened = 0
    /\ issued = <<>>
    /\ store = <<>>

Next ==
    \/ CallGather
    \/ /\ pc = "first_page"
       /\ \E st \in Outcomes, hits \in 0..MaxHits : FirstPageResponse(st, hits)
    \/ LaunchTasks
    \/ \E p \in DOMAIN task, st \in Outcomes : PageResponse(p, st)
    \/ \E month \in Months, year \in Years : CallArchive(month, year)
    \/ /\ pc = "archive"
       /\ \E st \in Outcomes, docs \in ArticleLists : ArchiveResponse(st, docs)
    \/ /\ call = "none"
       /\ \E arts \in ArticleLists, existing \in ExistingTables :
             CallDataframe(arts, existing)
    \/ /\ call = "none"
       /\ \E arts \in ArticleLists : CallDatabase(arts)
    \/ \E ok \in BOOLEAN : Connect(ok)
    \/ \E outcome \in ExecuteOutcomes : Insert(outcome)
    \/ CloseConnection

Spec == Init /\ [][Next]_vars

----------------------------------------------------------------------------
(* The page computation over the whole range of hit counts: the call up to *)
(* the assignment of total_pages.                                          *)

NextPages ==
    \/ CallGather
    \/ /\ pc = "first_page"
       /\ \E st \in Outcomes, hits \in 0..MaxTotalHits : FirstPageResponse(st, hits)

SpecPages == Init /\ [][NextPages]_vars

----------------------------------------------------------------------------
(* The fan-out at and around the page cap.  With up to 99 fetches in       *)
(* flight the upstream here answers them in the order they were issued and *)
(* fails at most one of them; every request is issued before the first of  *)
(* these answers.                                                          *)

\* hit counts fanned out: the low ones, and the multiples of the page size
\* and their successors around PageSize * MaxPages (990, 991, 1000, 1001, 1010)
QuotaHits ==
    (0..LowHits) \cup
    {h \in 0..MaxTotalHits :
        /\ h >= PageSize * MaxPages - PageSize
        /\ h <= PageSize * MaxPages + PageSize
        /\ h % PageSize <= 1}

InOrder(p) == \A q \in DOMAIN task : q < p => task[q] # "pending"

NoFailureYet == \A q \in DOMAIN task : task[q] # "raised"

NextQuota ==
    \/ CallGather
    \/ /\ pc = "first_page"
       /\ \E st \in Outcomes, hits \in QuotaHits : FirstPageResponse(st, hits)
    \/ LaunchTasks
    \/ \E p \in DOMAIN task :
          /\ task[p] = "pending"
          /\ InOrder(p)
          /\ \E st \in Outcomes :
                /\ RaiseForStatus(st) => NoFailureYet
                /\ PageResponse(p, st)

SpecQuota == Init /\ [][NextQuota]_vars

----------------------------------------------------------------------------
(* Properties *)

\* ceil(h / PageSize)
CeilPages(h) == (h + PageSize - 1) \div PageSize

\* the pages one aggregation fetches: page 0 always, never more than MaxPages
PagesNeeded(h) == Max(1, Min(CeilPages(h), MaxPages))

RequestedPages == Range(requested)

InFlight == {p \in DOMAIN task : task[p] = "pending"}

Failed(p) == p \in DOMAIN status /\ status[p] # StatusOK

Launched == call = "gather" /\ task[0] = "done" /\ pc # "launch"

\* C1 as stated: for every total_hits >= 0 the computed total_pages equals
\* max(1, ceil(total_hits / 10)) clamped to at most 100.
C1_TotalPagesAtLeastOne ==
    total_pages # Unset => total_pages = Min(Max(1, CeilPages(total_hits)), MaxPages)

\* C1 amended: total_pages equals ceil(total_hits / 10) clamped to at most
\* 100, rounding up exactly once; it is 0 for total_hits = 0 and equals
\* max(1, ceil(total_hits / 10)) clamped to 100 for every total_hits >= 1
\* (95 gives 10, 101 gives 11, 1000 gives 100).
C1_TotalPages ==
    total_pages # Unset =>
        /\ total_pages = Min(CeilPages(total_hits), MaxPages)
        /\ total_hits = 0 => total_pages = 0
        /\ total_hits >= 1 =>
               total_pages = Min(Max(1, CeilPages(total_hits)), MaxPages)
        /\ total_pages < MaxPages =>
               /\ total_pages * PageSize >= total_hits
               /\ (total_pages - 1) * PageSize < total_hits \/ total_hits = 0
        /\ total_hits = 95 => total_pages = 10
        /\ total_hits = 101 => total_pages = 11
        /\ total_hits = 1000 => total_pages = 100

C1_Witness == total_hits = 101 /\ total_pages = 11

RECURSIVE PagesAscending(_, _, _)
\* docs[from] \o docs[from + 1] \o ... \o docs[to]
PagesAscending(docs, from, to) ==
    IF from > to THEN <<>>
    ELSE docs[from] \o PagesAscending(docs, from + 1, to)

\* C2: when every page fetch succeeds, the returned sequence is page 0's
\* records followed by those of pages 1, 2, ... in ascending page order,
\* whatever the order in which the responses arrived.
C2_PageOrder ==
    (call = "gather" /\ ret.kind = "value") =>
        /\ ret.json = "array"
        /\ ret.items = PagesAscending(body, 0, PagesNeeded(total_hits) - 1)
        /\ \A i \in 1..Len(ret.items) : ret.items[i] = i
        /\ Len(ret.items) = Min(total_hits, PageSize * MaxPages)

C2_Witness ==
    /\ call = "gather"
    /\ ret.kind = "value"
    /\ Len(arrival) >= 2
    /\ arrival[1] > arrival[2]

\* C3: if any page fetch (page 0 or a later page) ends with a non-200
\* status or a transport failure, the call ends in failure and returns no
\* article sequence, not even the records of the pages that succeeded.
C3_FailurePropagates ==
    call = "gather" =>
        \A p \in DOMAIN task :
            Failed(p) =>
                /\ ret.kind = "exception"
                /\ ret.items = <<>>

C3_Witness ==
    /\ call = "gather"
    /\ ret.kind = "exception"
    /\ \E p, q \in DOMAIN status :
          /\ p >= 1 /\ q >= 1
          /\ status[p] = StatusOK /\ body[p] # <<>>
          /\ Failed(q)

\* C4: the page indices requested in one aggregation are exactly
\* 0..pages_needed-1, each once (no retry); no index >= 100 is requested; at
\* most 99 fetches are in flight at once; total_hits = 0 requests only page 0.
C4_RequestedPages ==
    call = "gather" =>
        /\ Cardinality(RequestedPages) = Len(requested)
        /\ \A p \in RequestedPages : p < MaxPages
        /\ Cardinality(InFlight) <= MaxPages - 1
        /\ Launched => RequestedPages = 0..(PagesNeeded(total_hits) - 1)
        /\ ~Launched => RequestedPages = {0}
        /\ total_hits = 0 => RequestedPages = {0}

C4_Witness ==
    /\ Launched
    /\ total_hits > PageSize * MaxPages
    /\ Len(requested) = MaxPages
    /\ \E p \in DOMAIN task : Failed(p)

\* C5: the database call closes its connection when it ends on every path,
\* also when an insert or the extraction of a record's fields fails.
C5_ConnectionClosed ==
    (call = "database" /\ pc = "ended") =>
        /\ opened <= 1
        /\ conn # "open"

\* C6: one insert per record in input order; when the insert for record k
\* fails the call fails, nothing is issued for a later record, and the rows
\* of the records before k remain: the rows written are a prefix of the input.
C6_PrefixWritten ==
    call = "database" =>
        /\ issued = [i \in 1..Len(issued) |-> i]
        /\ Len(issued) <= Len(articles)
        /\ Len(store) <= Len(issued)
        /\ Len(issued) <= Len(store) + 1
        /\ store = [i \in 1..Len(store) |-> DbRow(articles[i])]
        /\ ret.kind = "value" =>
               /\ Len(store) = Len(articles)
               /\ Len(issued) = Len(articles)
        /\ (ret.kind = "exception" /\ conn = "open") =>
               /\ Len(store) = idx - 1
               /\ Len(issued) <= idx
        /\ Len(issued) = Len(store) + 1 => ret.kind = "exception"

C6_Witness ==
    /\ call = "database"
    /\ ret.kind = "exception"
    /\ Len(articles) = 2
    /\ issued = <<1, 2>>
    /\ Len(store) = 1

AbsentByline(art) ==
    art.byline.person = <<>> /\ art.byline.organization = <<>>

EmptyNamedPerson(art) == art.byline.person = << Person(<<>>, <<>>) >>

SingleSpace == Str(<<" ">>)

ByLineRule(art, row) ==
    /\ AbsentByline(art) =>
          /\ row.author_list = None
          /\ row.organization_list = None
    /\ EmptyNamedPerson(art) =>
          /\ row.author_list = SingleSpace
          /\ row.author_list # None

\* C7: a record whose byline.person and byline.organization are both empty
\* gets None for author_list and organization_list from both materializers,
\* unlike a record with one person of empty names, whose author_list is " ".
C7_AbsentByline ==
    /\ call = "database" =>
          \A i \in 1..Len(store) : ByLineRule(articles[i], store[i])
    /\ (call = "dataframe" /\ ret.kind = "value") =>
          /\ Len(ret.items) = Len(existing_df.rows) + Len(articles)
          /\ \A i \in 1..Len(articles) :
                ByLineRule(articles[i], ret.items[Len(existing_df.rows) + i])

C7_Witness ==
    /\ call = "dataframe"
    /\ ret.kind = "value"
    /\ existing_df.given
    /\ Len(articles) = 2
    /\ AbsentByline(articles[1])
    /\ EmptyNamedPerson(articles[2])

\* C8: on status 200 the single-month fetch returns the sequence of article
\* records of the response (one element for a one-article body, as for
\* month 7 of 2023); on any other status the call fails.
C8_ArchiveReturnsArticles ==
    (call = "archive" /\ pc = "ended") =>
        IF Failed(0)
        THEN ret.kind = "exception"
        ELSE ret = Returned("array", body[0])

\* C9: no page >= 1 is requested before the response of page 0 has been
\* received and total_hits read; when page 0 fails no other page is requested.
C9_FirstPageFirst ==
    call = "gather" =>
        /\ (\E p \in RequestedPages : p >= 1) =>
              /\ 0 \in DOMAIN status
              /\ status[0] = StatusOK
              /\ task[0] = "done"
              /\ total_hits # Unset
        /\ Failed(0) => requested = <<0>>

C9_Witness ==
    /\ call = "gather"
    /\ total_hits > PageSize
    /\ 1 \in RequestedPages

\* C10: a failing page fetch ends the aggregation without cancelling the
\* fetches still in flight; they stay as they are, and what they return later
\* never changes the failed outcome of the call.
C10_NoCancellation ==
    [][ /\ \A p \in DOMAIN task' : task'[p] # "cancelled"
        /\ (call = "gather" /\ ret.kind = "exception") =>
               /\ ret' = ret
               /\ \A p \in InFlight : task'[p] \in {"pending", "done", "raised"}
      ]_vars

C10_Witness ==
    /\ call = "gather"
    /\ ret.kind = "exception"
    /\ \E i, j \in 1..Len(arrival) :
          /\ i < j
          /\ task[arrival[i]] = "raised"
          /\ task[arrival[j]] = "done"
          /\ body[arrival[j]] # <<>>

====
